---------------------------- MODULE Spec2Model ----------------------------
(***************************************************************************)
(* Model of the Engine.IO v2 parser, src/lib/index.js.                     *)
(*                                                                         *)
(* Representation of JavaScript values:                                    *)
(*   - a string is a sequence of UTF-16 code units (integers);             *)
(*   - a Buffer or an ArrayBuffer is a sequence of bytes (0..255);         *)
(*   - a value is a record [kind, val], kind being one of "undefined",     *)
(*     "string", "Buffer", "ArrayBuffer";                                  *)
(*   - a packet is a record [type, data]; type "undefined" stands for a    *)
(*     packet whose type property holds the value undefined.               *)
(* The runtime is the one the code is written for: a Buffer has no         *)
(* `buffer` property, so `packet.data.buffer || packet.data` is            *)
(* packet.data for every data kind of the model.                           *)
(***************************************************************************)
EXTENDS Integers, Sequences, FiniteSets, TLC

(***************************************************************************)
(* Bounds of the model.                                                    *)
(***************************************************************************)
\* longest text data of a packet handed to an encoder
MaxTextLen == 1
\* longest Buffer / ArrayBuffer data of a packet handed to an encoder
MaxBytesLen == 1
\* longest packet list handed to encodePayload
MaxPackets == 2
\* longest raw text handed to decodePayload / decodePacket
MaxRawText == 6
\* longest raw buffer handed to decodePayload
MaxRawBytes == 5
\* length at which the model's runtime refuses to grow a string (RangeError)
MaxStringLength == 20
\* length of the one long text data: its encoding has a two-digit length
LongTextLen == 9

(***************************************************************************)
(* Characters (UTF-16 code units) the code names.                          *)
(***************************************************************************)
ChColon == 58
ChB == 98
ChZero == 48
ChEquals == 61
ReplacementChar == 65533
Terminator == 255

Min(a, b) == IF a < b THEN a ELSE b

Max(a, b) == IF a > b THEN a ELSE b

\* "parser error"
ParserErrorText == <<112, 97, 114, 115, 101, 114, 32, 101, 114, 114, 111, 114>>

\* "undefined", what String(undefined) and '' + undefined give
UndefinedText == <<117, 110, 100, 101, 102, 105, 110, 101, 100>>

Undefined == [kind |-> "undefined", val |-> <<>>]

Str(s) == [kind |-> "string", val |-> s]

Buf(b) == [kind |-> "Buffer", val |-> b]

ArrBuf(b) == [kind |-> "ArrayBuffer", val |-> b]

(***************************************************************************)
(* Packet types.                                                           *)
(***************************************************************************)
\* var packets = { open: 0, close: 1, ping: 2, pong: 3, message: 4, upgrade: 5, noop: 6 }
packets == [open |-> 0, close |-> 1, ping |-> 2, pong |-> 3, message |-> 4, upgrade |-> 5, noop |-> 6]

\* var packetslist = keys(packets)
packetslist == <<"open", "close", "ping", "pong", "message", "upgrade", "noop">>

TypeNames == DOMAIN packets

\* packetslist[k] for a number k: an array element, or undefined
PacketsListAt(k) == IF k >= 0 /\ k < Len(packetslist) THEN packetslist[k + 1] ELSE "undefined"

\* var err = { type: 'error', data: 'parser error' }
err == [type |-> "error", data |-> Str(ParserErrorText)]

(***************************************************************************)
(* JavaScript string primitives.                                           *)
(***************************************************************************)
\* s.charAt(k): a string of one code unit, or '' past the end
CharAt(s, k) == IF k >= 0 /\ k < Len(s) THEN <<s[k + 1]>> ELSE <<>>

\* s.substr(from, n) for from >= 0: at most n code units from index from
Substr(s, from, n) == IF n <= 0 \/ from >= Len(s) THEN <<>> ELSE SubSeq(s, from + 1, Min(from + n, Len(s)))

\* s.substring(from) and s.substr(from), buf.slice(from): everything from index from on
Tail0(s, from) == IF from >= Len(s) THEN <<>> ELSE SubSeq(s, Max(from, 0) + 1, Len(s))

\* buf.slice(from, to) for from, to >= 0
Slice(b, from, to) == IF Min(to, Len(b)) <= from THEN <<>> ELSE SubSeq(b, from + 1, Min(to, Len(b)))

IsDigit(c) == c >= 48 /\ c <= 57

\* StrWhiteSpaceChar of the ECMAScript grammar, on the code units below 256
IsWhiteSpace(c) == c \in {9, 10, 11, 12, 13, 32, 160}

RECURSIVE TrimLeft(_)
TrimLeft(s) == IF s # <<>> /\ IsWhiteSpace(Head(s)) THEN TrimLeft(Tail(s)) ELSE s

RECURSIVE TrimRight(_)
TrimRight(s) == IF s # <<>> /\ IsWhiteSpace(s[Len(s)]) THEN TrimRight(SubSeq(s, 1, Len(s) - 1)) ELSE s

\* value of the digits of s in base `base`, most significant first
RECURSIVE DigitsValue(_, _)
DigitsValue(s, base) == IF s = <<>> THEN 0 ELSE DigitsValue(SubSeq(s, 1, Len(s) - 1), base) * base + (s[Len(s)] - ChZero)

AllIn(s, lo, hi) == \A k \in DOMAIN s : s[k] >= lo /\ s[k] <= hi

NaN == [nan |-> TRUE, val |-> 0]

Num(v) == [nan |-> FALSE, val |-> v]

(***************************************************************************)
(* Number(s), the ToNumber conversion of a string: white space is          *)
(* trimmed, the empty string is 0, a run of decimal digits is its value    *)
(* (leading zeros allowed), 0b / 0B introduces a binary literal.  The      *)
(* texts of the model hold no sign, '.', 'e', 'x', 'o' or 'I', so the      *)
(* rest of the StringNumericLiteral grammar is not reachable; every other  *)
(* string is NaN.                                                          *)
(***************************************************************************)
ToNumber(s) ==
  LET t == TrimRight(TrimLeft(s))
  IN  IF t = <<>> THEN Num(0)
      ELSE IF AllIn(t, 48, 57) THEN Num(DigitsValue(t, 10))
      ELSE IF Len(t) > 2 /\ t[1] = ChZero /\ t[2] \in {ChB, 66} /\ AllIn(Tail0(t, 2), 48, 49)
           THEN Num(DigitsValue(Tail0(t, 2), 2))
      ELSE NaN

\* s != k for a string s and a number k: s is converted with ToNumber; NaN differs from all
StrNeqNum(s, k) == LET m == ToNumber(s) IN m.nan \/ k.nan \/ m.val # k.val

\* parseInt(s) for a string of decimal digits: NaN when it does not start with a digit
RECURSIVE DigitPrefix(_)
DigitPrefix(s) == IF s # <<>> /\ IsDigit(Head(s)) THEN <<Head(s)>> \o DigitPrefix(Tail(s)) ELSE <<>>

ParseInt(s) == LET d == DigitPrefix(TrimLeft(s)) IN IF d = <<>> THEN NaN ELSE Num(DigitsValue(d, 10))

\* String(k) for an integer k >= 0: its canonical decimal form
RECURSIVE ToDecimal(_)
ToDecimal(k) == IF k < 10 THEN <<ChZero + k>> ELSE ToDecimal(k \div 10) \o <<ChZero + (k % 10)>>


(***************************************************************************)
(* UTF-8: new Buffer(text, 'utf8') and buf.toString('utf8').  The texts of *)
(* the model hold code units below 2048 and its buffers hold no lead byte  *)
(* of a three- or four-byte sequence (224..244), so one- and two-byte      *)
(* sequences are all there is; a byte that starts no sequence decodes to   *)
(* U+FFFD.                                                                 *)
(***************************************************************************)
Utf8OfChar(c) == IF c < 128 THEN <<c>> ELSE <<192 + (c \div 64), 128 + (c % 64)>>

RECURSIVE Utf8Encode(_)
Utf8Encode(s) == IF s = <<>> THEN <<>> ELSE Utf8OfChar(Head(s)) \o Utf8Encode(Tail(s))

IsContinuation(b) == b >= 128 /\ b <= 191

RECURSIVE Utf8Decode(_)
Utf8Decode(b) ==
  IF b = <<>> THEN <<>>
  ELSE IF b[1] < 128 THEN <<b[1]>> \o Utf8Decode(Tail(b))
  ELSE IF b[1] >= 194 /\ b[1] <= 223 /\ Len(b) > 1 /\ IsContinuation(b[2])
       THEN <<(b[1] - 192) * 64 + (b[2] - 128)>> \o Utf8Decode(Tail(Tail(b)))
  ELSE <<ReplacementChar>> \o Utf8Decode(Tail(b))

(***************************************************************************)
(* Base64: buf.toString('base64') and new Buffer(text, 'base64').          *)
(***************************************************************************)
\* the character of a six-bit value: A-Z, a-z, 0-9, +, /
B64Char(v) == IF v < 26 THEN 65 + v ELSE IF v < 52 THEN 97 + (v - 26) ELSE IF v < 62 THEN 48 + (v - 52) ELSE IF v = 62 THEN 43 ELSE 47

\* the six-bit value of a character, -1 for a character outside the alphabet
\* (the decoder also takes the URL-safe '-' and '_')
B64Val(c) == IF c >= 65 /\ c <= 90 THEN c - 65 ELSE IF c >= 97 /\ c <= 122 THEN c - 97 + 26 ELSE IF c >= 48 /\ c <= 57 THEN c - 48 + 52 ELSE IF c \in {43, 45} THEN 62 ELSE IF c \in {47, 95} THEN 63 ELSE -1

\* RFC 4648 with padding
RECURSIVE Base64Encode(_)
Base64Encode(b) ==
  IF b = <<>> THEN <<>>
  ELSE IF Len(b) = 1
       THEN <<B64Char(b[1] \div 4), B64Char((b[1] % 4) * 16), ChEquals, ChEquals>>
  ELSE IF Len(b) = 2
       THEN <<B64Char(b[1] \div 4), B64Char((b[1] % 4) * 16 + (b[2] \div 16)), B64Char((b[2] % 16) * 4), ChEquals>>
  ELSE <<B64Char(b[1] \div 4), B64Char((b[1] % 4) * 16 + (b[2] \div 16)), B64Char((b[2] % 16) * 4 + (b[3] \div 64)), B64Char(b[3] % 64)>>
       \o Base64Encode(Tail0(b, 3))

\* the characters before the first '='
RECURSIVE UntilPad(_)
UntilPad(s) == IF s = <<>> \/ Head(s) = ChEquals THEN <<>> ELSE <<Head(s)>> \o UntilPad(Tail(s))

\* the six-bit values of the characters of the alphabet, the others skipped
RECURSIVE B64Values(_)
B64Values(s) == IF s = <<>> THEN <<>> ELSE (IF B64Val(Head(s)) >= 0 THEN <<B64Val(Head(s))>> ELSE <<>>) \o B64Values(Tail(s))

\* groups of four values give three bytes; a final group of two or three gives one or two
RECURSIVE B64Groups(_)
B64Groups(v) ==
  IF Len(v) < 2 THEN <<>>
  ELSE IF Len(v) = 2 THEN <<v[1] * 4 + (v[2] \div 16)>>
  ELSE IF Len(v) = 3 THEN <<v[1] * 4 + (v[2] \div 16), (v[2] % 16) * 16 + (v[3] \div 4)>>
  ELSE <<v[1] * 4 + (v[2] \div 16), (v[2] % 16) * 16 + (v[3] \div 4), (v[3] % 4) * 64 + v[4]>> \o B64Groups(Tail0(v, 4))

\* the lenient decoder of the runtime: decoding stops at '=', other characters
\* outside the alphabet are skipped
Base64Decode(s) == B64Groups(B64Values(UntilPad(s)))

\* n zero bytes
Zeros(n) == [k \in 1..n |-> 0]

(***************************************************************************)
(* encodeBase64Packet(packet, callback): out is the value handed to the    *)
(* callback, packet is the caller's packet object after the call (the      *)
(* function assigns packet.data).  An ArrayBuffer has no indexed           *)
(* properties: packet.data[i] is undefined and buf[i] = undefined stores   *)
(* 0.  With string data, toString('base64') is String.prototype.toString;  *)
(* with no data, packet.data.toString throws a TypeError.                  *)
(***************************************************************************)
Base64PacketData(packet) == IF packet.data.kind = "ArrayBuffer" THEN Buf(Zeros(Len(packet.data.val))) ELSE packet.data

encodeBase64Packet(packet) ==
  LET data == Base64PacketData(packet)
      message == <<ChB, ChZero + packets[packet.type]>>
  IN  [packet |-> [packet EXCEPT !.data = data],
       out |-> IF data.kind = "undefined" THEN [kind |-> "TypeError", val |-> <<>>]
               ELSE IF data.kind = "string" THEN Str(message \o data.val)
               ELSE Str(message \o Base64Encode(data.val))]

(***************************************************************************)
(* encodePacket(packet, supportsBinary, callback)                          *)
(***************************************************************************)
encodePacket(packet, supportsBinary) ==
  LET data == packet.data
  IN  IF data.kind \in {"Buffer", "ArrayBuffer"}
      THEN IF ~supportsBinary
           THEN encodeBase64Packet(packet)
           ELSE [packet |-> packet, out |-> Buf(<<packets[packet.type]>> \o data.val)]
      ELSE [packet |-> packet,
            out |-> Str(<<ChZero + packets[packet.type]>> \o (IF data.kind = "undefined" THEN <<>> ELSE data.val))]

(***************************************************************************)
(* decodeBase64Packet(msg, binaryType)                                     *)
(***************************************************************************)
\* packetslist[c] for a string c of at most one character: an array index is the
\* canonical form of a number, here one digit
PacketsListKey(c) == IF c # <<>> /\ IsDigit(c[1]) THEN PacketsListAt(c[1] - ChZero) ELSE "undefined"

decodeBase64Packet(msg, binaryType) ==
  LET type == PacketsListKey(CharAt(msg, 0))
      data == Base64Decode(Tail0(msg, 1))
  IN  [type |-> type, data |-> IF binaryType = "arraybuffer" THEN ArrBuf(data) ELSE Buf(data)]

(***************************************************************************)
(* decodePacket(data, binaryType) for a string or a Buffer.  A packet of   *)
(* type "RangeError" stands for the exception of new Uint8Array(-1), which *)
(* the arraybuffer branch raises on an empty buffer.                       *)
(***************************************************************************)
decodePacketText(data, binaryType) ==
  IF CharAt(data, 0) = <<ChB>>
  THEN decodeBase64Packet(Tail0(data, 1), binaryType)
  ELSE LET type == CharAt(data, 0)
       IN  IF StrNeqNum(type, ToNumber(type)) \/ PacketsListKey(type) = "undefined"
           THEN err
           ELSE IF Len(data) > 1
                THEN [type |-> PacketsListKey(type), data |-> Str(Tail0(data, 1))]
                ELSE [type |-> PacketsListKey(type), data |-> Undefined]

decodePacketBinary(data, binaryType) ==
  LET type == IF data = <<>> THEN "undefined" ELSE PacketsListAt(data[1])
  IN  IF binaryType = "arraybuffer"
      THEN IF data = <<>> THEN [type |-> "RangeError", data |-> Undefined]
           ELSE [type |-> type, data |-> ArrBuf(Tail0(data, 1))]
      ELSE [type |-> type, data |-> Buf(Tail0(data, 1))]

decodePacket(data, binaryType) ==
  IF data.kind = "string" THEN decodePacketText(data.val, binaryType)
  ELSE decodePacketBinary(data.val, binaryType)

(***************************************************************************)
(* encodePayload(packets, supportsBinary, callback), text form.  map()     *)
(* runs encodeOne on the packets in index order, every callback being      *)
(* synchronous; pkts is the caller's array after the call.                 *)
(***************************************************************************)
\* setLengthHeader counting the data without the type digit
setLengthHeaderDataOnly(message) == ToDecimal(Len(message) - 1) \o <<ChColon>> \o message

\* function setLengthHeader(message)
setLengthHeader(message) == ToDecimal(Len(message)) \o <<ChColon>> \o message

\* results.join('') of the header-prefixed messages
RECURSIVE JoinEncoded(_, _)
JoinEncoded(pkts, supportsBinary) ==
  IF pkts = <<>> THEN <<>>
  ELSE setLengthHeader(encodePacket(Head(pkts), supportsBinary).out.val) \o JoinEncoded(Tail(pkts), supportsBinary)

\* the caller's packets after encodePacket ran on each
PacketsAfter(pkts, supportsBinary) == [k \in DOMAIN pkts |-> encodePacket(pkts[k], supportsBinary).packet]

(***************************************************************************)
(* encodePayloadAsBinary(packets, callback).  encodeOne calls              *)
(* encodePacket(p, callback): the capability argument is the callback, so  *)
(* supportsBinary is null there.                                           *)
(***************************************************************************)
\* the digits of the header: sizeBuffer[i + 1] = parseInt(encodingLength[i])
RECURSIVE DigitBytes(_)
DigitBytes(s) == IF s = <<>> THEN <<>> ELSE <<Head(s) - ChZero>> \o DigitBytes(Tail(s))

\* one segment: packet is the value encodePacket hands over
encodeOneBinary(packet) ==
  LET encodingLength == ToDecimal(Len(packet.val))
  IN  IF packet.kind = "string"
      THEN <<0>> \o DigitBytes(encodingLength) \o <<Terminator>> \o Utf8Encode(packet.val)
      ELSE <<1>> \o DigitBytes(encodingLength) \o <<Terminator>> \o packet.val

RECURSIVE ConcatBinary(_)
ConcatBinary(pkts) == IF pkts = <<>> THEN <<>> ELSE encodeOneBinary(encodePacket(Head(pkts), FALSE).out) \o ConcatBinary(Tail(pkts))

encodePayloadAsBinary(pkts) == [packets |-> PacketsAfter(pkts, FALSE), out |-> Buf(ConcatBinary(pkts))]

encodePayload(pkts, supportsBinary) ==
  IF supportsBinary THEN encodePayloadAsBinary(pkts)
  ELSE IF pkts = <<>> THEN [packets |-> pkts, out |-> Str(<<ChZero, ChColon>>)]
  ELSE [packets |-> PacketsAfter(pkts, supportsBinary), out |-> Str(JoinEncoded(pkts, supportsBinary))]

(***************************************************************************)
(* map(ary, doOne, done) and its callers, step by step.  after(n, done),   *)
(* of the package "after", counts its calls and calls done at the n-th.    *)
(***************************************************************************)
\* encodeOne of encodePayload / of encodePayloadAsBinary on one packet: the
\* caller's packet afterwards and the msg handed to doneCallback
doOne(packet, supportsBinary) ==
  LET r == encodePacket(packet, FALSE)
  IN  [packet |-> r.packet,
       msg |-> IF supportsBinary THEN Buf(encodeOneBinary(r.out)) ELSE Str(setLengthHeader(r.out.val))]

\* one with result.push(msg) for result[i] = msg: msg goes to the first free slot
onePush(result, k, msg) ==
  [result EXCEPT ![CHOOSE j \in DOMAIN result : result[j] = Undefined /\ \A h \in 1..(j - 1) : result[h] # Undefined] = msg]

\* the callback of one(i, el, cb): result[i] = msg (k = i + 1)
one(result, k, msg) == [result EXCEPT ![k] = msg]

\* results.join('') / Buffer.concat(results)
RECURSIVE JoinResults(_)
JoinResults(results) == IF results = <<>> THEN <<>> ELSE Head(results).val \o JoinResults(Tail(results))

\* what the done callback of the map call hands to the caller's callback
done(results, supportsBinary) == IF supportsBinary THEN Buf(JoinResults(results)) ELSE Str(JoinResults(results))

(***************************************************************************)
(* Inputs of the model.                                                    *)
(***************************************************************************)
\* all sequences over S of length at most n
SeqsUpTo(S, n) == UNION {[1..k -> S] : k \in 0..n}

\* characters of packet text data: 'a' and the two-byte U+00E9
TextChars == {97, 233}

\* bytes of packet binary data
DataBytes == {0, 200}

\* a text of LongTextLen characters 'a'
LongText == [k \in 1..LongTextLen |-> 97]

DataValues == {Undefined, Str(LongText)} \cup {Str(s) : s \in SeqsUpTo(TextChars, MaxTextLen)} \cup {Buf(b) : b \in SeqsUpTo(DataBytes, MaxBytesLen)} \cup {ArrBuf(b) : b \in SeqsUpTo(DataBytes, MaxBytesLen)}

\* the valid packets handed to encodePacket
Packets == [type : TypeNames, data : DataValues]

\* the packets of the lists handed to encodePayload
PayloadPackets == {p \in Packets : p.type \in {"ping", "message"} /\ (p.data.val = LongText \/ \A k \in DOMAIN p.data.val : p.data.val[k] \in {233, 200})}

\* characters of the texts received from the wire: '0', '1', ':', 'a', 'b'
RawChars == {48, 49, 58, 97, 98}

\* characters of the texts received from the wire as one packet: those, '7' and ' '
PacketChars == RawChars \cup {55, 32}

\* bytes of the buffers received from the wire: 0, 1, '1', 0xFF
RawBytes == {0, 1, 49, 255}

BinaryTypes == {"arraybuffer", "null"}

(***************************************************************************)
(* State.                                                                  *)
(***************************************************************************)
VARIABLES
  pc,             \* where the caller is: idle, packetEncoded, packetDecoded, payloadEncoded,
                  \* mapping, textLoop, binWhile, binScan, binDeliver, done, raised
  origin,         \* "none", "encoder" (the wire value is an encoder's output) or "wire"
  given,          \* the packets as the caller built them
  pkts,           \* the caller's packet objects now
  supportsBinary, \* the capability flag of the encode call
  binaryType,     \* the binaryType of the decode call
  encoded,        \* the value the encoder handed to its callback / the value received
  decoded,        \* what decodePacket returned
  calls,          \* the invocations of decodePayload's callback: [packet, index, total, ret]
  i,              \* decodePayload: var i; decodePayloadAsBinary: the scan index i
  length,         \* decodePayload: var length
  bufferTail,     \* decodePayloadAsBinary: var bufferTail
  buffers,        \* decodePayloadAsBinary: var buffers
  strLen,         \* decodePayloadAsBinary: var strLen
  isString,       \* decodePayloadAsBinary: var isString
  result,         \* map: var result, a slot per packet, Undefined until it is stored
  count,          \* map: the calls that next = after(ary.length, done) still waits for
  completed,      \* the indexes of the packets whose encode has called back, in that order
  cbCalls         \* how many times the callback of the encodePayload call was invoked

vars == <<pc, origin, given, pkts, supportsBinary, binaryType, encoded, decoded, calls, i, length, bufferTail, buffers, strLen, isString, result, count, completed, cbCalls>>

textVars == <<i, length>>

binVars == <<bufferTail, buffers, strLen, isString>>

mapVars == <<result, count, completed, cbCalls>>

NoPacket == [type |-> "none", data |-> Undefined]

Init ==
  /\ pc = "idle"
  /\ origin = "none"
  /\ given = <<>>
  /\ pkts = <<>>
  /\ supportsBinary = FALSE
  /\ binaryType = "null"
  /\ encoded = Undefined
  /\ decoded = NoPacket
  /\ calls = <<>>
  /\ i = 0
  /\ length = <<>>
  /\ bufferTail = <<>>
  /\ buffers = <<>>
  /\ strLen = <<>>
  /\ isString = FALSE
  /\ result = <<>>
  /\ count = 0
  /\ completed = <<>>
  /\ cbCalls = 0

(***************************************************************************)
(* The single-packet operations.                                           *)
(***************************************************************************)
\* a caller encodes one packet
EncodePacketCall ==
  /\ pc = "idle"
  /\ \E p \in Packets, sb \in BOOLEAN :
       LET r == encodePacket(p, sb)
       IN  /\ given' = <<p>>
           /\ pkts' = <<r.packet>>
           /\ supportsBinary' = sb
           /\ encoded' = r.out
  /\ origin' = "encoder"
  /\ pc' = "packetEncoded"
  /\ UNCHANGED <<binaryType, decoded, calls, textVars, binVars, mapVars>>

\* a text or a buffer arrives from the wire as one packet
ReceivePacket ==
  /\ pc = "idle"
  /\ \E d \in {Str(s) : s \in SeqsUpTo(PacketChars, MaxRawText)} \cup {Buf(b) : b \in SeqsUpTo(RawBytes, MaxRawBytes)} :
       encoded' = d
  /\ origin' = "wire"
  /\ pc' = "packetEncoded"
  /\ UNCHANGED <<given, pkts, supportsBinary, binaryType, decoded, calls, textVars, binVars, mapVars>>

\* decodePacket(encoded, bt)
DecodePacketCall ==
  /\ pc = "packetEncoded"
  /\ \E bt \in BinaryTypes :
       /\ binaryType' = bt
       /\ decoded' = decodePacket(encoded, bt)
  /\ pc' = IF decoded'.type = "RangeError" THEN "raised" ELSE "packetDecoded"
  /\ UNCHANGED <<origin, given, pkts, supportsBinary, encoded, calls, textVars, binVars, mapVars>>

(***************************************************************************)
(* The payload operations.                                                 *)
(***************************************************************************)
\* a caller encodes a list of packets
EncodePayloadCall ==
  /\ pc = "idle"
  /\ \E ps \in SeqsUpTo(PayloadPackets, MaxPackets), sb \in BOOLEAN :
       LET r == encodePayload(ps, sb)
       IN  /\ given' = ps
           /\ pkts' = r.packets
           /\ supportsBinary' = sb
           /\ encoded' = r.out
           /\ completed' = [k \in DOMAIN ps |-> k]
  /\ origin' = "encoder"
  /\ pc' = "payloadEncoded"
  /\ cbCalls' = cbCalls + 1
  /\ UNCHANGED <<binaryType, decoded, calls, textVars, binVars, result, count>>

\* encodePayload(packets, supportsBinary, callback) up to the end of the loop of
\* map: the empty list is answered at once, else every doOne is started
EncodePayloadStart ==
  /\ pc = "idle"
  /\ \E ps \in SeqsUpTo(PayloadPackets, MaxPackets), sb \in BOOLEAN :
       /\ given' = ps
       /\ pkts' = ps
       /\ supportsBinary' = sb
       /\ IF ps = <<>>
          THEN /\ encoded' = IF sb THEN Buf(<<>>) ELSE Str(<<ChZero, ChColon>>)
               /\ cbCalls' = cbCalls + 1
               /\ pc' = "payloadEncoded"
               /\ UNCHANGED <<result, count>>
          ELSE /\ result' = [k \in DOMAIN ps |-> Undefined]
               /\ count' = Len(ps)
               /\ pc' = "mapping"
               /\ UNCHANGED <<encoded, cbCalls>>
  /\ completed' = <<>>
  /\ origin' = "encoder"
  /\ UNCHANGED <<binaryType, decoded, calls, textVars, binVars>>

\* the encode of one pending packet calls back: result[i] = msg; next(error, result).
\* encodePacket calls back before it returns, so the code completes the packets in
\* the order of the list; map is written for any order, and any order is taken here.
MapOne ==
  /\ pc = "mapping"
  /\ \E k \in DOMAIN given \ {completed[c] : c \in DOMAIN completed} :
       LET r == doOne(pkts[k], supportsBinary)
           results == one(result, k, r.msg)
       IN  /\ pkts' = [pkts EXCEPT ![k] = r.packet]
           /\ result' = results
           /\ count' = count - 1
           /\ completed' = Append(completed, k)
           /\ IF count - 1 = 0
              THEN /\ encoded' = done(results, supportsBinary)
                   /\ cbCalls' = cbCalls + 1
                   /\ pc' = "payloadEncoded"
              ELSE UNCHANGED <<encoded, cbCalls, pc>>
  /\ UNCHANGED <<origin, given, supportsBinary, binaryType, decoded, calls, textVars, binVars>>

\* a text payload arrives from the wire
ReceiveText ==
  /\ pc = "idle"
  /\ \E s \in SeqsUpTo(RawChars, MaxRawText) : encoded' = Str(s)
  /\ origin' = "wire"
  /\ pc' = "payloadEncoded"
  /\ UNCHANGED <<given, pkts, supportsBinary, binaryType, decoded, calls, textVars, binVars, mapVars>>

\* a binary payload arrives from the wire
ReceiveBinary ==
  /\ pc = "idle"
  /\ \E b \in SeqsUpTo(RawBytes, MaxRawBytes) : encoded' = Buf(b)
  /\ origin' = "wire"
  /\ pc' = "payloadEncoded"
  /\ UNCHANGED <<given, pkts, supportsBinary, binaryType, decoded, calls, textVars, binVars, mapVars>>

\* callback(packet, index, total), which returned ret ("unused": the decoder ignores it)
Call(packet, index, total, ret) == [packet |-> packet, index |-> index, total |-> total, ret |-> ret]

\* return callback(err, 0, 1)
ErrCall == Call(err, 0, 1, "unused")

\* err.type == packet.type && err.data == packet.data
IsErr(packet) == err.type = packet.type /\ packet.data.kind = "string" /\ err.data.val = packet.data.val

\* decodePayload(encoded, bt, callback) up to the loop: the dispatch on the kind of
\* the input, and the check for the empty text
DecodePayloadCall ==
  /\ pc = "payloadEncoded"
  /\ \E bt \in BinaryTypes : binaryType' = bt
  /\ IF encoded.kind # "string"
     THEN /\ bufferTail' = encoded.val
          /\ buffers' = <<>>
          /\ pc' = "binWhile"
          /\ UNCHANGED <<calls, textVars, strLen, isString>>
     ELSE IF encoded.val = <<>>
     THEN /\ calls' = <<ErrCall>>
          /\ pc' = "done"
          /\ UNCHANGED <<textVars, binVars>>
     ELSE /\ i' = 0
          /\ length' = <<>>
          /\ pc' = "textLoop"
          /\ UNCHANGED <<calls, binVars>>
  /\ UNCHANGED <<origin, given, pkts, supportsBinary, encoded, decoded, mapVars>>

\* ColonBranch with `if (false === ret) return;` left out
ColonBranchKeepsGoing(data, at, len, bt, ret) ==
  LET n == ToNumber(len)
      msg == Substr(data, at + 1, n.val)
      packet == decodePacket(Str(msg), bt)
  IN  IF len = <<>> \/ StrNeqNum(len, n) \/ StrNeqNum(len, Num(Len(msg)))
      THEN [call |-> <<ErrCall>>, return |-> TRUE, n |-> 0]
      ELSE IF msg = <<>>
      THEN [call |-> <<>>, return |-> FALSE, n |-> n.val]
      ELSE IF IsErr(packet)
      THEN [call |-> <<ErrCall>>, return |-> TRUE, n |-> 0]
      ELSE [call |-> <<Call(packet, at + n.val, Len(data), ret)>>, return |-> FALSE, n |-> n.val]

\* ColonBranch with callback(packet, i, l) for callback(packet, i + n, l)
ColonBranchIndexOfColon(data, at, len, bt, ret) ==
  LET n == ToNumber(len)
      msg == Substr(data, at + 1, n.val)
      packet == decodePacket(Str(msg), bt)
  IN  IF len = <<>> \/ StrNeqNum(len, n) \/ StrNeqNum(len, Num(Len(msg)))
      THEN [call |-> <<ErrCall>>, return |-> TRUE, n |-> 0]
      ELSE IF msg = <<>>
      THEN [call |-> <<>>, return |-> FALSE, n |-> n.val]
      ELSE IF IsErr(packet)
      THEN [call |-> <<ErrCall>>, return |-> TRUE, n |-> 0]
      ELSE [call |-> <<Call(packet, at, Len(data), ret)>>, return |-> (ret = "false"), n |-> n.val]

\* the outcome of the ':' branch of the loop body of decodePayload, the callback
\* returning ret: the call made (if any), whether the decoder returns, and n
ColonBranch(data, at, len, bt, ret) ==
  LET n == ToNumber(len)
      msg == Substr(data, at + 1, n.val)
      packet == decodePacket(Str(msg), bt)
  IN  IF len = <<>> \/ StrNeqNum(len, n)
      THEN [call |-> <<ErrCall>>, return |-> TRUE, n |-> 0]
      ELSE IF StrNeqNum(len, Num(Len(msg)))
      THEN [call |-> <<ErrCall>>, return |-> TRUE, n |-> 0]
      ELSE IF msg = <<>>
      THEN [call |-> <<>>, return |-> FALSE, n |-> n.val]
      ELSE IF IsErr(packet)
      THEN [call |-> <<ErrCall>>, return |-> TRUE, n |-> 0]
      ELSE [call |-> <<Call(packet, at + n.val, Len(data), ret)>>, return |-> (ret = "false"), n |-> n.val]

\* one iteration of the for loop of decodePayload
TextIter ==
  /\ pc = "textLoop"
  /\ i < Len(encoded.val)
  /\ IF CharAt(encoded.val, i) # <<ChColon>>
     THEN /\ length' = length \o CharAt(encoded.val, i)
          /\ i' = i + 1
          /\ UNCHANGED <<calls, pc>>
     ELSE \E ret \in {"false", "other"} :
            LET r == ColonBranch(encoded.val, i, length, binaryType, ret)
            IN  /\ calls' = calls \o r.call
                /\ IF r.return
                   THEN pc' = "done" /\ UNCHANGED textVars
                   ELSE pc' = pc /\ i' = i + r.n + 1 /\ length' = <<>>
  /\ UNCHANGED <<origin, given, pkts, supportsBinary, binaryType, encoded, decoded, binVars, mapVars>>

\* the loop of decodePayload is over: if (length != '') return callback(err, 0, 1)
TextExit ==
  /\ pc = "textLoop"
  /\ i >= Len(encoded.val)
  /\ calls' = IF length # <<>> THEN calls \o <<ErrCall>> ELSE calls
  /\ pc' = "done"
  /\ UNCHANGED <<origin, given, pkts, supportsBinary, binaryType, encoded, decoded, textVars, binVars, mapVars>>

\* the head of the while loop of decodePayloadAsBinary
BinWhile ==
  /\ pc = "binWhile"
  /\ IF Len(bufferTail) > 0
     THEN /\ strLen' = <<>>
          /\ isString' = (bufferTail[1] = 0)
          /\ i' = 1
          /\ pc' = "binScan"
     ELSE /\ i' = 0
          /\ pc' = "binDeliver"
          /\ UNCHANGED <<strLen, isString>>
  /\ UNCHANGED <<origin, given, pkts, supportsBinary, binaryType, encoded, decoded, calls, length, bufferTail, buffers, mapVars>>

\* new String(bufferTail[k]): the decimal form of a byte, "undefined" past the end
ByteText(b, k) == IF k < Len(b) THEN ToDecimal(b[k + 1]) ELSE UndefinedText

\* the body of the while loop after the scan: strLen holds the header
Segment(tail, len, str) ==
  LET afterHeader == Tail0(tail, Len(len) + 1)
      msgLength == ParseInt(len)
      msg == IF msgLength.nan THEN <<>> ELSE Slice(afterHeader, 1, msgLength.val + 1)
  IN  [msg |-> IF str THEN Str(Utf8Decode(msg)) ELSE Buf(msg),
       bufferTail |-> IF msgLength.nan THEN afterHeader ELSE Tail0(afterHeader, msgLength.val + 1)]

\* one iteration of the scan for the terminator; on the terminator, the rest of the
\* body of the while loop.  A string that outgrows the runtime's limit raises.
BinScan ==
  /\ pc = "binScan"
  /\ IF i < Len(bufferTail) /\ bufferTail[i + 1] = Terminator
     THEN LET r == Segment(bufferTail, strLen, isString)
          IN  /\ buffers' = Append(buffers, r.msg)
              /\ bufferTail' = r.bufferTail
              /\ pc' = "binWhile"
              /\ UNCHANGED <<i, strLen>>
     ELSE IF Len(strLen \o ByteText(bufferTail, i)) > MaxStringLength
     THEN /\ pc' = "raised"
          /\ UNCHANGED <<i, strLen, bufferTail, buffers>>
     ELSE /\ strLen' = strLen \o ByteText(bufferTail, i)
          /\ i' = i + 1
          /\ UNCHANGED <<pc, bufferTail, buffers>>
  /\ UNCHANGED <<origin, given, pkts, supportsBinary, binaryType, encoded, decoded, calls, length, isString, mapVars>>

\* one iteration of buffers.forEach: callback(decodePacket(buffer, binaryType), i, total)
BinDeliver ==
  /\ pc = "binDeliver"
  /\ IF i < Len(buffers)
     THEN LET packet == decodePacket(buffers[i + 1], binaryType)
          IN  IF packet.type = "RangeError"
              THEN pc' = "raised" /\ UNCHANGED <<calls, i>>
              ELSE /\ calls' = Append(calls, Call(packet, i, Len(buffers), "unused"))
                   /\ i' = i + 1
                   /\ UNCHANGED pc
     ELSE pc' = "done" /\ UNCHANGED <<calls, i>>
  /\ UNCHANGED <<origin, given, pkts, supportsBinary, binaryType, encoded, decoded, length, binVars, mapVars>>

(***************************************************************************)
(* Specifications.                                                         *)
(***************************************************************************)
Next ==
  \/ EncodePacketCall
  \/ ReceivePacket
  \/ DecodePacketCall
  \/ EncodePayloadCall
  \/ EncodePayloadStart
  \/ MapOne
  \/ ReceiveText
  \/ ReceiveBinary
  \/ DecodePayloadCall
  \/ TextIter
  \/ TextExit
  \/ BinWhile
  \/ BinScan
  \/ BinDeliver

Spec == Init /\ [][Next]_vars

\* one packet: encoded and decoded, or received and decoded
NextPacket ==
  \/ EncodePacketCall
  \/ ReceivePacket
  \/ DecodePacketCall

SpecPacket == Init /\ [][NextPacket]_vars

\* a text payload received from the wire
NextText ==
  \/ ReceiveText
  \/ DecodePayloadCall
  \/ TextIter
  \/ TextExit

SpecText == Init /\ [][NextText]_vars

\* a binary payload received from the wire
NextBinary ==
  \/ ReceiveBinary
  \/ DecodePayloadCall
  \/ BinWhile
  \/ BinScan
  \/ BinDeliver

SpecBinary == Init /\ [][NextBinary]_vars

\* a list of packets encoded, its payload decoded
NextPayload ==
  \/ EncodePayloadCall
  \/ DecodePayloadCall
  \/ TextIter
  \/ TextExit
  \/ BinWhile
  \/ BinScan
  \/ BinDeliver

SpecPayload == Init /\ [][NextPayload]_vars

\* a list of packets encoded, one completion of a per-packet encode at a time
NextMap ==
  \/ EncodePayloadStart
  \/ MapOne

SpecMap == Init /\ [][NextMap]_vars

\* a text received from the wire, as one packet or as a payload
NextTextDecoders ==
  \/ ReceivePacket
  \/ DecodePacketCall
  \/ ReceiveText
  \/ DecodePayloadCall
  \/ TextIter
  \/ TextExit

SpecTextDecoders == Init /\ [][NextTextDecoders]_vars

(***************************************************************************)
(* Notions the properties below are stated in.                             *)
(***************************************************************************)
IsBinaryKind(k) == k \in {"Buffer", "ArrayBuffer"}

\* '' and absent data have the same encoding (the type digit alone) and decode as
\* absent: the two are taken as the same data
Absent(d) == d.kind = "undefined" \/ (d.kind = "string" /\ d.val = <<>>)

\* equality of data up to the byte-buffer / array-buffer representation
SameData(a, b) ==
  \/ Absent(a) /\ Absent(b)
  \/ a.val = b.val /\ (a.kind = b.kind \/ (IsBinaryKind(a.kind) /\ IsBinaryKind(b.kind)))

SamePacket(a, b) == a.type = b.type /\ SameData(a.data, b.data)

\* the decoder has returned and no callback asked it to stop
RanToTheEnd == pc = "done" /\ \A k \in DOMAIN calls : calls[k].ret # "false"

\* C1: decodePayload on the output of encodePayload(ps, flag) makes exactly |ps|
\* callbacks, the k-th carrying a packet equal to ps[k], in the order of ps.
PayloadRoundTrip ==
  (RanToTheEnd /\ origin = "encoder") =>
      /\ Len(calls) = Len(given)
      /\ \A k \in DOMAIN calls : SamePacket(calls[k].packet, given[k])

\* C2: decodePacket applied to what encodePacket(p, supportsBinary) hands to its
\* callback returns a packet equal to p, for every valid p and both flags.
PacketRoundTrip ==
  (pc = "packetDecoded" /\ origin = "encoder") => SamePacket(decoded, given[1])

\* C3: a text payload in which the decoder meets a malformed segment gets exactly one
\* callback in total, the error callback (err, 0, 1): no packet of it is delivered.
ErrorIsTheOnlyCall ==
  (encoded.kind = "string" /\ \E k \in DOMAIN calls : calls[k] = ErrCall) => calls = <<ErrCall>>

\* C4: every packet decodePacket returns has one of the seven type names or is the
\* error packet; its type is never undefined.
DecodedTypeIsValid ==
  pc = "packetDecoded" => (decoded.type \in TypeNames \/ decoded = err)

(***************************************************************************)
(* The binary payload grammar, <kind><digits><0xFF><body>, as the format   *)
(* defines it: the digits spell the number of bytes of the body.           *)
(***************************************************************************)
\* the number spelled by digit-valued bytes, most significant first
RECURSIVE DigitBytesValue(_)
DigitBytesValue(d) == IF d = <<>> THEN 0 ELSE DigitBytesValue(SubSeq(d, 1, Len(d) - 1)) * 10 + d[Len(d)]

\* a body that is a single-packet encoding with a known type: the type code for a
\* binary body; the type digit, or 'b' and the type digit, for a text body
KnownTypeBody(kind, body) ==
  /\ body # <<>>
  /\ IF kind = 1 THEN body[1] \in 0..6
     ELSE \/ body[1] \in 48..54
          \/ body[1] = ChB /\ Len(body) > 1 /\ body[2] \in 48..54

\* b is a sequence of complete segments with known packet types
RECURSIVE WellFormedBinary(_)
WellFormedBinary(b) ==
  \/ b = <<>>
  \/ /\ b[1] \in {0, 1}
     /\ \E t \in 3..Len(b) :
          /\ b[t] = Terminator
          /\ \A k \in 2..(t - 1) : b[k] \in 0..9
          /\ LET m == DigitBytesValue(SubSeq(b, 2, t - 1))
             IN  /\ t + m <= Len(b)
                 /\ KnownTypeBody(b[1], SubSeq(b, t + 1, t + m))
                 /\ WellFormedBinary(Tail0(b, t + m))

\* the segment of one single-packet encoding
GrammarSegment(body) ==
  LET bytes == IF body.kind = "string" THEN Utf8Encode(body.val) ELSE body.val
  IN  <<IF body.kind = "string" THEN 0 ELSE 1>> \o DigitBytes(ToDecimal(Len(bytes))) \o <<Terminator>> \o bytes

\* the segments of the single-packet encodings of ps, in order
RECURSIVE GrammarPayload(_)
GrammarPayload(ps) == IF ps = <<>> THEN <<>> ELSE GrammarSegment(encodePacket(Head(ps), FALSE).out) \o GrammarPayload(Tail(ps))

\* C5: on a malformed binary payload the decoder does not raise and makes the
\* error callback (err, 0, 1), delivering no packet.
MalformedBinaryIsRejected ==
  (pc \in {"done", "raised"} /\ origin = "wire" /\ encoded.kind = "Buffer" /\ ~WellFormedBinary(encoded.val))
      => (pc = "done" /\ calls = <<ErrCall>>)

(***************************************************************************)
(* The callbacks decodePayload makes on a text when no callback stops it.  *)
(***************************************************************************)
RECURSIVE Uninterrupted(_, _, _, _)
Uninterrupted(data, at, len, bt) ==
  IF at >= Len(data) THEN (IF len # <<>> THEN <<ErrCall>> ELSE <<>>)
  ELSE IF data[at + 1] # ChColon THEN Uninterrupted(data, at + 1, len \o <<data[at + 1]>>, bt)
  ELSE LET r == ColonBranch(data, at, len, bt, "other")
       IN  IF r.return THEN r.call ELSE r.call \o Uninterrupted(data, at + r.n + 1, <<>>, bt)

\* the same invocation, whatever was returned
SameCall(a, b) == a.packet = b.packet /\ a.index = b.index /\ a.total = b.total

\* C6: once the callback of the text payload decoder returns false, the decoder
\* has returned and makes no further callback, neither for a later packet nor for
\* an error in the rest of the payload; the callbacks made are the first ones of
\* the payload, in order.
NoCallAfterFalse ==
  /\ \A k \in DOMAIN calls : calls[k].ret = "false" => (k = Len(calls) /\ pc = "done")
  /\ (encoded.kind = "string" /\ encoded.val # <<>> /\ pc \in {"textLoop", "done"}) =>
        LET full == Uninterrupted(encoded.val, 0, <<>>, binaryType)
        IN  /\ Len(calls) <= Len(full)
            /\ \A k \in DOMAIN calls : SameCall(calls[k], full[k])

\* the callback stopped the decoder at a packet that is not the last callback of
\* the payload: the rest held a packet or an error
StoppedBeforeTheRest ==
  /\ pc = "done"
  /\ origin = "wire"
  /\ encoded.kind = "string"
  /\ calls # <<>>
  /\ calls[Len(calls)].ret = "false"
  /\ Len(Uninterrupted(encoded.val, 0, <<>>, binaryType)) > Len(calls)

\* the canonical decimal form of a non-negative integer
Canonical(s) == s # <<>> /\ AllIn(s, 48, 57) /\ s = ToDecimal(DigitsValue(s, 10))

\* C7: a length prefix that is empty or not the canonical decimal form of a
\* number makes the text payload decoder fail with the error callback.
NonCanonicalLengthFails ==
  [][(pc = "textLoop" /\ i < Len(encoded.val) /\ CharAt(encoded.val, i) = <<ChColon>> /\ ~Canonical(length))
        => (pc' = "done" /\ calls' = calls \o <<ErrCall>>)]_vars

\* a payload an encoder made in which every header states the size of its body
WellFormedPayload ==
  /\ origin = "encoder"
  /\ encoded.kind = "Buffer" => encoded.val = GrammarPayload(given)

\* C8 as stated: the last callback of a well-formed payload of N packets has
\* index = N - 1 and total = N, in text form and in binary form.
LastIndexIsCount ==
  (RanToTheEnd /\ WellFormedPayload /\ calls # <<>>) =>
      /\ calls[Len(calls)].index = Len(given) - 1
      /\ calls[Len(calls)].total = Len(given)

\* C8 as amended: a well-formed payload of N packets gets N callbacks.  In binary
\* form the k-th has index = k - 1 and total = N.  In text form the k-th has the
\* offset of the last character of the k-th segment as index and the length of the
\* payload as total.  In both forms the last callback has index + 1 = total.
IndexAndTotal ==
  (RanToTheEnd /\ WellFormedPayload) =>
      /\ Len(calls) = Len(given)
      /\ \A k \in DOMAIN calls :
           IF encoded.kind = "string"
           THEN /\ calls[k].index + 1 = Len(JoinEncoded(SubSeq(given, 1, k), FALSE))
                /\ calls[k].total = Len(encoded.val)
           ELSE /\ calls[k].index = k - 1
                /\ calls[k].total = Len(given)
      /\ calls # <<>> => calls[Len(calls)].index + 1 = calls[Len(calls)].total

\* a text payload of two packets decoded to the end
TwoPacketsDecoded ==
  /\ RanToTheEnd
  /\ WellFormedPayload
  /\ encoded.kind = "string"
  /\ Len(given) = 2
  /\ Len(calls) = 2
  /\ calls[1].index + 1 < calls[1].total

\* C9: the output of the binary payload encoder is the sequence of the segments
\* <kind><digits><0xFF><body> of its packets, the digits spelling the number of
\* bytes of the body.
HeaderCountsBodyBytes ==
  (pc = "payloadEncoded" /\ origin = "encoder" /\ supportsBinary) => encoded = Buf(GrammarPayload(given))

\* the form the claim gives the encoding of p under the flag sb
EncodingForm(p, sb) ==
  IF IsBinaryKind(p.data.kind)
  THEN IF sb THEN Buf(<<packets[p.type]>> \o p.data.val)
       ELSE Str(<<ChB, ChZero + packets[p.type]>> \o Base64Encode(p.data.val))
  ELSE Str(<<ChZero + packets[p.type]>> \o p.data.val)

\* C10: encodePacket gives a buffer (type code, data bytes) for binary data with
\* the flag, 'b' + type digit + base64 of the data bytes for binary data without
\* it, and the type digit followed by the text for text or absent data.
EncodePacketForm ==
  (pc = "packetEncoded" /\ origin = "encoder") => encoded = EncodingForm(given[1], supportsBinary)

\* text is the concatenation of one segment <len>:<data> per element of datas, in
\* order, <len> being the canonical decimal form of the number of characters of <data>
RECURSIVE IsSegmentsOf(_, _)
IsSegmentsOf(text, datas) ==
  IF datas = <<>> THEN text = <<>>
  ELSE \E h \in 1..Len(text) :
         /\ Canonical(SubSeq(text, 1, h))
         /\ DigitsValue(SubSeq(text, 1, h), 10) = Len(Head(datas))
         /\ Len(text) >= h + 1 + Len(Head(datas))
         /\ text[h + 1] = ChColon
         /\ SubSeq(text, h + 2, h + 1 + Len(Head(datas))) = Head(datas)
         /\ IsSegmentsOf(Tail0(text, h + 1 + Len(Head(datas))), Tail(datas))

\* the single-packet text or base64 encodings of ps
SingleEncodings(ps) == [k \in DOMAIN ps |-> encodePacket(ps[k], FALSE).out.val]

UnknownFirst(s) == s = <<>> \/ s[1] \notin ({ChB} \cup 48..54)

\* text starts with complete segments of known packet types (canonical length,
\* whole body) followed by a complete segment whose body has an unknown first character
RECURSIVE HoldsUnknownBody(_)
HoldsUnknownBody(text) ==
  \E h \in 1..(Len(text) - 1) :
    /\ Canonical(SubSeq(text, 1, h))
    /\ text[h + 1] = ChColon
    /\ LET n == DigitsValue(SubSeq(text, 1, h), 10)
           body == SubSeq(text, h + 2, h + 1 + n)
       IN  /\ n >= 1
           /\ Len(text) >= h + 1 + n
           /\ \/ UnknownFirst(body)
              \/ KnownTypeBody(0, body) /\ HoldsUnknownBody(Tail0(text, h + 1 + n))

\* C12: decodePacket on a text with an unknown first character (the empty text
\* included) returns the error packet, and decodePayload on a text payload holding
\* such a body makes the single callback (err, 0, 1).
UnknownTypeIsError ==
  /\ (pc = "packetDecoded" /\ origin = "wire" /\ encoded.kind = "string" /\ UnknownFirst(encoded.val))
        => decoded = err
  /\ (RanToTheEnd /\ origin = "wire" /\ encoded.kind = "string" /\ HoldsUnknownBody(encoded.val))
        => calls = <<ErrCall>>

\* C13: the binary payload decoder terminates on every finite buffer: the scan for
\* the terminator stays inside the buffer and ends without raising, and each
\* iteration of the outer loop leaves a strictly shorter bufferTail.
BinaryDecoderProgress ==
  [][ /\ (pc = "binScan" /\ pc' = "binScan") => i' <= Len(bufferTail)
      /\ pc = "binScan" => pc' # "raised"
      /\ (pc = "binScan" /\ pc' = "binWhile") => Len(bufferTail') < Len(bufferTail) ]_vars

\* C14: every encode operation leaves the caller's packets as they were given:
\* same type, same kind of data, same bytes, whatever the capability flag.
EncodersLeavePacketsUnchanged ==
  (origin = "encoder" /\ pc \in {"packetEncoded", "payloadEncoded"}) => pkts = given

\* C15: while and after decodePayload reads the output of the text payload encoder
\* for a non-empty list, every callback made so far has index < total, the indexes
\* strictly increase, and index + 1 = total holds for the callback of the last
\* packet and for no earlier one; an uninterrupted run makes one callback per packet.
LastPacketIsRecognisable ==
  (origin = "encoder" /\ encoded.kind = "string" /\ given # <<>> /\ pc \in {"textLoop", "done"}) =>
      /\ Len(calls) <= Len(given)
      /\ \A k \in DOMAIN calls :
           /\ calls[k].index < calls[k].total
           /\ k > 1 => calls[k - 1].index < calls[k].index
           /\ (calls[k].index + 1 = calls[k].total) <=> (k = Len(given))
      /\ RanToTheEnd => Len(calls) = Len(given)

\* a text payload of a long packet and a short one, decoded to the end
LongThenShortDecoded ==
  /\ RanToTheEnd
  /\ origin = "encoder"
  /\ encoded.kind = "string"
  /\ Len(given) = 2
  /\ given[1].data = Str(LongText)
  /\ Len(calls) = 2
  /\ calls[1].index + 1 < calls[1].total
  /\ calls[2].index + 1 = calls[2].total

\* C16: the callback of encodePayload / encodePayloadAsBinary is invoked once, not
\* before the encode of every packet has called back, and with the segments in the
\* order of the list, whatever the order in which the encodes called back.
CallbackOnceInListOrder ==
  /\ cbCalls <= 1
  /\ pc = "mapping" => cbCalls = 0 /\ Len(completed) < Len(given)
  /\ (pc = "payloadEncoded" /\ origin = "encoder") =>
        /\ cbCalls = 1
        /\ {completed[c] : c \in DOMAIN completed} = DOMAIN given
        /\ Len(completed) = Len(given)
        /\ encoded = encodePayload(given, supportsBinary).out

\* the second packet's encode called back before the first one's, the packets differ
CompletedOutOfOrder ==
  /\ pc = "payloadEncoded"
  /\ cbCalls = 1
  /\ completed = <<2, 1>>
  /\ encodePayload(given, supportsBinary).out # encodePayload(<<given[2], given[1]>>, supportsBinary).out

=============================================================================
